---------------------------- MODULE Spec2Model ----------------------------
(***************************************************************************)
(* Slime-Volleyball server (src/server/server.js): the room registry       *)
(* `lobbies`, the per-connection message/close handlers and the per-room   *)
(* game loop started by startGameLoop.                                     *)
(*                                                                         *)
(* Every handler of the Node.js event loop runs to completion, so each     *)
(* handler is one action.  Lengths and velocities are JavaScript doubles   *)
(* in the source; here they are fixed-point integers in units of 1/Scale   *)
(* pixel, which represents 0.3 (slime gravity) and 0.25 (ball gravity)     *)
(* exactly.  Only the slime/ball kick (cos/sin of atan2) is quantised.     *)
(***************************************************************************)
EXTENDS Integers, Sequences, FiniteSets, TLC

VARIABLES
    lobbies,    \* roomCode key -> [players, gameState]       (server.js:17)
    ws,         \* connection -> [roomCode, playerIndex, readyState]
    intervals,  \* roomCode key -> number of live setInterval timers
    out,        \* messages sent by the handler that ran last
    crashed,    \* an uncaught exception has escaped a handler
    msgs,       \* message and close events handled so far (exploration bound)
    ticks,      \* interval callbacks run so far (exploration bound)
    inputs      \* input messages handled so far (exploration bound)

vars == <<lobbies, ws, intervals, out, crashed, msgs, ticks, inputs>>

---------------------------------------------------------------------------
(* Exploration bounds *)

MaxMsgs == 4        \* message and close events explored in Spec
MaxIntervals == 2   \* startGameLoop calls explored per room code
MaxTicks == 1       \* interval callbacks explored in Spec
MaxInputs == 1      \* input messages explored
MaxFlightTicks == 50 \* interval callbacks explored in SpecSlime (a jump lasts 48)

(* the connections accepted by wss.on("connection") *)
Conns == {1, 2, 3}

---------------------------------------------------------------------------
(* Program constants; lengths are in pixels, Px converts to fixed point *)

Scale == 20
Px(n) == n * Scale

WIDTH == 600
HEIGHT == 400
SLIME_RADIUS == 30
BALL_RADIUS == 12
NET_HEIGHT == 80
BALL_RESET_Y == 100
BALL_RESET_VX == 3
SLIME_GRAVITY == 6          \* 0.3 px per tick^2
BALL_GRAVITY == 5           \* 0.25 px per tick^2
JUMP_VY == -140             \* -7 px per tick
HIT_DIST == 42
KICK_SPEED == 4
KICK_DIST == 43
POINTS_PER_SET == 5
BEST_OF == 3

(* JavaScript values of data.roomCode.  A missing roomCode is the value    *)
(* undefined; used as a property key it becomes the string "undefined".    *)
Undefined == "<undefined>"
RoomCodes == {"A", "undefined", Undefined}
ToKey(rc) == IF rc = Undefined THEN "undefined" ELSE rc
Keys == {ToKey(rc) : rc \in RoomCodes}
Truthy(rc) == rc # Undefined /\ rc # ""

(* ws.playerIndex before any join is undefined *)
NoIndex == -1

(* Values of data.vx sent by a client, and the outcomes of Math.random() > 0.5 *)
VX == {-100, 0, 100}
RandomVx == {Px(BALL_RESET_VX), -Px(BALL_RESET_VX)}

---------------------------------------------------------------------------
(* createGameState, server.js:19-33 *)

createGameState ==
    [ width     |-> Px(WIDTH),
      height    |-> Px(HEIGHT),
      netHeight |-> Px(NET_HEIGHT),
      netX      |-> Px(WIDTH) \div 2 - Px(2),
      ball      |-> [x |-> Px(WIDTH) \div 2, y |-> Px(BALL_RESET_Y),
                     vx |-> Px(BALL_RESET_VX), vy |-> -Px(2)],
      slimes    |-> [i \in 0..1 |->
                       [x |-> IF i = 0 THEN Px(150) ELSE Px(450),
                        y |-> Px(HEIGHT - SLIME_RADIUS),
                        vx |-> 0, vy |-> 0, jumping |-> FALSE, score |-> 0]],
      match     |-> [p1Wins |-> 0, p2Wins |-> 0, bestOf |-> BEST_OF,
                     started |-> FALSE] ]

(* resetBall, server.js:130-132; rvx is the outcome of the Math.random test *)
resetBall(g, rvx) ==
    [g EXCEPT !.ball = [x |-> g.width \div 2, y |-> Px(BALL_RESET_Y),
                        vx |-> rvx, vy |-> -Px(2)]]

---------------------------------------------------------------------------
(* Fixed-point helpers for Math.sqrt / Math.atan2 / Math.cos / Math.sin *)

Abs(n) == IF n < 0 THEN -n ELSE n

RECURSIVE SqrtSearch(_, _, _)
SqrtSearch(n, lo, hi) ==
    IF lo >= hi THEN lo
    ELSE LET mid == (lo + hi + 1) \div 2
         IN  IF mid * mid <= n THEN SqrtSearch(n, mid, hi)
             ELSE SqrtSearch(n, lo, mid - 1)

(* floor(10 * sqrt(d2)), for d2 below the squared hit distance *)
Dist10(d2) == SqrtSearch(100 * d2, 0, 10 * Px(HIT_DIST))

(* k * cos(angle) resp. k * sin(angle) for angle = atan2(dy, dx), truncated *)
(* toward zero; d is dx resp. dy.  atan2(0, 0) is 0.                       *)
Along(k, d, d2, isCos) ==
    IF d2 = 0 THEN (IF isCos THEN k ELSE 0)
    ELSE LET q == (10 * k * Abs(d)) \div Dist10(d2)
             m == IF q > k THEN k ELSE q
         IN  IF d < 0 THEN -m ELSE m

---------------------------------------------------------------------------
(* One pass of the interval callback, server.js:42-119 *)

(* updateSlime with the landing test against the canvas edge *)
updateSlimeNoRadius(s, g) ==
    LET x1  == s.x + s.vx
        y1  == s.y + s.vy
        vy1 == s.vy + SLIME_GRAVITY
        landed == y1 > g.height
        x2  == IF x1 < Px(30) THEN Px(30) ELSE x1
        x3  == IF x2 > g.width - Px(30) THEN g.width - Px(30) ELSE x2
    IN  [s EXCEPT !.x = x3,
                  !.y = IF landed THEN g.height - Px(30) ELSE y1,
                  !.vy = IF landed THEN 0 ELSE vy1,
                  !.jumping = IF landed THEN FALSE ELSE s.jumping]

(* update slimes, server.js:46-59 *)
updateSlime(s, g) ==
    LET x1  == s.x + s.vx
        y1  == s.y + s.vy
        vy1 == s.vy + SLIME_GRAVITY
        landed == y1 > g.height - Px(30)
        x2  == IF x1 < Px(30) THEN Px(30) ELSE x1
        x3  == IF x2 > g.width - Px(30) THEN g.width - Px(30) ELSE x2
    IN  [s EXCEPT !.x = x3,
                  !.y = IF landed THEN g.height - Px(30) ELSE y1,
                  !.vy = IF landed THEN 0 ELSE vy1,
                  !.jumping = IF landed THEN FALSE ELSE s.jumping]

updateSlimes(g) ==
    [g EXCEPT !.slimes = [i \in 0..1 |-> updateSlime(g.slimes[i], g)]]

(* update ball, server.js:62-64 *)
updateBall(g) ==
    [g EXCEPT !.ball = [x |-> g.ball.x + g.ball.vx, y |-> g.ball.y + g.ball.vy,
                        vx |-> g.ball.vx, vy |-> g.ball.vy + BALL_GRAVITY]]

(* checkSet with the match length compared to bestOf itself *)
checkSetNoCeil(g, r2) ==
    IF g.slimes[0].score >= POINTS_PER_SET \/ g.slimes[1].score >= POINTS_PER_SET
    THEN LET p1   == g.slimes[0].score > g.slimes[1].score
             w1   == IF p1 THEN g.match.p1Wins + 1 ELSE g.match.p1Wins
             w2   == IF p1 THEN g.match.p2Wins ELSE g.match.p2Wins + 1
             needed == g.match.bestOf
             g1   == [g EXCEPT !.match.p1Wins = w1, !.match.p2Wins = w2,
                               !.slimes[0].score = 0, !.slimes[1].score = 0]
             g2   == resetBall(g1, r2)
         IN  IF w1 = needed \/ w2 = needed
             THEN [g2 EXCEPT !.match.started = FALSE]
             ELSE g2
    ELSE g

(* checkSet with the set awarded to the lower score *)
checkSetSwapped(g, r2) ==
    IF g.slimes[0].score >= POINTS_PER_SET \/ g.slimes[1].score >= POINTS_PER_SET
    THEN LET p1   == g.slimes[0].score < g.slimes[1].score
             w1   == IF p1 THEN g.match.p1Wins + 1 ELSE g.match.p1Wins
             w2   == IF p1 THEN g.match.p2Wins ELSE g.match.p2Wins + 1
             needed == (g.match.bestOf + 1) \div 2
             g1   == [g EXCEPT !.match.p1Wins = w1, !.match.p2Wins = w2,
                               !.slimes[0].score = 0, !.slimes[1].score = 0]
             g2   == resetBall(g1, r2)
         IN  IF w1 = needed \/ w2 = needed
             THEN [g2 EXCEPT !.match.started = FALSE]
             ELSE g2
    ELSE g

(* check winning condition, server.js:77-89 *)
checkSet(g, r2) ==
    IF g.slimes[0].score >= POINTS_PER_SET \/ g.slimes[1].score >= POINTS_PER_SET
    THEN LET p1   == g.slimes[0].score > g.slimes[1].score
             w1   == IF p1 THEN g.match.p1Wins + 1 ELSE g.match.p1Wins
             w2   == IF p1 THEN g.match.p2Wins ELSE g.match.p2Wins + 1
             needed == (g.match.bestOf + 1) \div 2
             g1   == [g EXCEPT !.match.p1Wins = w1, !.match.p2Wins = w2,
                               !.slimes[0].score = 0, !.slimes[1].score = 0]
             g2   == resetBall(g1, r2)
         IN  IF w1 = needed \/ w2 = needed
             THEN [g2 EXCEPT !.match.started = FALSE]
             ELSE g2
    ELSE g

(* floorScore with the point given to the side the ball landed on *)
floorScoreSameSide(g, r1, r2) ==
    IF g.ball.y > g.height - Px(12)
    THEN LET scorer == IF g.ball.x < g.width \div 2 THEN 0 ELSE 1
             g1 == [g EXCEPT !.slimes[scorer].score = @ + 1]
         IN  checkSet(resetBall(g1, r1), r2)
    ELSE g

(* floor (score), server.js:67-90 *)
floorScore(g, r1, r2) ==
    IF g.ball.y > g.height - Px(12)
    THEN LET scorer == IF g.ball.x < g.width \div 2 THEN 1 ELSE 0
             g1 == [g EXCEPT !.slimes[scorer].score = @ + 1]
         IN  checkSet(resetBall(g1, r1), r2)
    ELSE g

(* walls, server.js:93-94 *)
walls(g) ==
    LET b  == g.ball
        b1 == IF b.x < Px(12) \/ b.x > g.width - Px(12)
              THEN [b EXCEPT !.vx = -b.vx] ELSE b
        b2 == IF b1.y < Px(12)
              THEN [b1 EXCEPT !.y = Px(12), !.vy = -b1.vy] ELSE b1
    IN  [g EXCEPT !.ball = b2]

(* net, server.js:97-105 *)
net(g) ==
    LET b == g.ball
        mid == g.width \div 2
    IN  IF /\ b.x > mid - Px(4) - Px(12)
           /\ b.x < mid + Px(4) + Px(12)
           /\ b.y > g.height - g.netHeight
        THEN [g EXCEPT !.ball.x = IF b.x < mid THEN mid - Px(16) ELSE mid + Px(16),
                       !.ball.vx = -b.vx]
        ELSE g

(* slime collisions, server.js:108-119: the callback for slime i *)
slimeCollision(g, i) ==
    LET b  == g.ball
        s  == g.slimes[i]
        dx == b.x - s.x
        dy == b.y - s.y
        d2 == dx * dx + dy * dy
    IN  IF d2 < Px(HIT_DIST) * Px(HIT_DIST)
        THEN [g EXCEPT !.ball =
                 [vx |-> Along(Px(KICK_SPEED), dx, d2, TRUE),
                  vy |-> Along(Px(KICK_SPEED), dy, d2, FALSE),
                  x  |-> s.x + Along(Px(KICK_DIST), dx, d2, TRUE),
                  y  |-> s.y + Along(Px(KICK_DIST), dy, d2, FALSE)]]
        ELSE g

slimeCollisions(g) == slimeCollision(slimeCollision(g, 0), 1)

(* the simulation part of the callback; r1, r2 are the Math.random outcomes *)
(* of the resetBall calls on lines 70/73 and 82                             *)
step(g, r1, r2) ==
    slimeCollisions(net(walls(floorScore(updateBall(updateSlimes(g)), r1, r2))))

---------------------------------------------------------------------------
(* State after the module has loaded and the connections were accepted *)

Init ==
    /\ lobbies = <<>>
    /\ ws = [c \in Conns |-> [roomCode |-> Undefined, playerIndex |-> NoIndex,
                              readyState |-> "OPEN"]]
    /\ intervals = [k \in Keys |-> 0]
    /\ out = <<>>
    /\ crashed = FALSE
    /\ msgs = 0
    /\ ticks = 0
    /\ inputs = 0

HasLobby(k) == k \in DOMAIN lobbies

(* a message event is delivered to an open connection of a live process *)
Receives(c) == ~crashed /\ ws[c].readyState = "OPEN"

(* an exception thrown inside a handler is caught nowhere *)
Throw ==
    /\ crashed' = TRUE
    /\ out' = <<>>
    /\ UNCHANGED <<lobbies, ws, intervals>>

Msg(c, t, body) == [to |-> c, type |-> t, body |-> body]

(* Join with the capacity test written `> 2` *)
JoinOffByOne(c, rc) ==
    LET k       == ToKey(rc)
        created == ~HasLobby(k)
        lob1    == IF created
                   THEN lobbies @@ (k :> [players |-> <<>>,
                                          gameState |-> createGameState])
                   ELSE lobbies
        n       == Len(lob1[k].players)
    IN  /\ Receives(c)
        /\ created => intervals[k] < MaxIntervals
        /\ intervals' = IF created THEN [intervals EXCEPT ![k] = @ + 1]
                        ELSE intervals
        /\ crashed' = crashed
        /\ IF n > 2
           THEN /\ out' = <<Msg(c, "full", <<>>)>>
                /\ lobbies' = lob1
                /\ ws' = ws
           ELSE /\ lobbies' = [lob1 EXCEPT ![k].players = Append(@, c)]
                /\ ws' = [ws EXCEPT ![c].roomCode = rc, ![c].playerIndex = n]
                /\ out' = <<Msg(c, "joined", <<n>>)>>

(* ws.on("message"), data.type === "join", server.js:140-157 *)
Join(c, rc) ==
    LET k       == ToKey(rc)
        created == ~HasLobby(k)
        lob1    == IF created
                   THEN lobbies @@ (k :> [players |-> <<>>,
                                          gameState |-> createGameState])
                   ELSE lobbies
        n       == Len(lob1[k].players)
    IN  /\ Receives(c)
        /\ created => intervals[k] < MaxIntervals
        /\ intervals' = IF created THEN [intervals EXCEPT ![k] = @ + 1]
                        ELSE intervals
        /\ crashed' = crashed
        /\ IF n >= 2
           THEN /\ out' = <<Msg(c, "full", <<>>)>>
                /\ lobbies' = lob1
                /\ ws' = ws
           ELSE /\ lobbies' = [lob1 EXCEPT ![k].players = Append(@, c)]
                /\ ws' = [ws EXCEPT ![c].roomCode = rc, ![c].playerIndex = n]
                /\ out' = <<Msg(c, "joined", <<n>>)>>

(* Input that writes the slime of the other player *)
InputOtherSlime(c, vx, jump) ==
    LET k == ToKey(ws[c].roomCode)
        i == ws[c].playerIndex
    IN  /\ Receives(c)
        /\ IF ~HasLobby(k)
           THEN /\ out' = <<>>
                /\ UNCHANGED <<lobbies, ws, intervals, crashed>>
           ELSE IF i = NoIndex
           THEN Throw
           ELSE LET s  == lobbies[k].gameState.slimes[1 - i]
                    s1 == [s EXCEPT !.vx = vx]
                    s2 == IF jump /\ ~s1.jumping
                          THEN [s1 EXCEPT !.vy = JUMP_VY, !.jumping = TRUE]
                          ELSE s1
                IN  /\ lobbies' = [lobbies EXCEPT
                                     ![k].gameState.slimes[1 - i] = s2]
                    /\ out' = <<>>
                    /\ UNCHANGED <<ws, intervals, crashed>>

(* Input that grants a jump whether or not the slime is in the air *)
InputRejump(c, vx, jump) ==
    LET k == ToKey(ws[c].roomCode)
        i == ws[c].playerIndex
    IN  /\ Receives(c)
        /\ IF ~HasLobby(k)
           THEN /\ out' = <<>>
                /\ UNCHANGED <<lobbies, ws, intervals, crashed>>
           ELSE IF i = NoIndex
           THEN Throw
           ELSE LET s  == lobbies[k].gameState.slimes[i]
                    s1 == [s EXCEPT !.vx = vx]
                    s2 == IF jump
                          THEN [s1 EXCEPT !.vy = JUMP_VY, !.jumping = TRUE]
                          ELSE s1
                IN  /\ lobbies' = [lobbies EXCEPT ![k].gameState.slimes[i] = s2]
                    /\ out' = <<>>
                    /\ UNCHANGED <<ws, intervals, crashed>>

(* ws.on("message"), data.type === "input", server.js:159-168 *)
Input(c, vx, jump) ==
    LET k == ToKey(ws[c].roomCode)
        i == ws[c].playerIndex
    IN  /\ Receives(c)
        /\ IF ~HasLobby(k)
           THEN /\ out' = <<>>
                /\ UNCHANGED <<lobbies, ws, intervals, crashed>>
           ELSE IF i = NoIndex
           THEN Throw          \* slimes[undefined] is undefined: TypeError
           ELSE LET s  == lobbies[k].gameState.slimes[i]
                    s1 == [s EXCEPT !.vx = vx]
                    s2 == IF jump /\ ~s1.jumping
                          THEN [s1 EXCEPT !.vy = JUMP_VY, !.jumping = TRUE]
                          ELSE s1
                IN  /\ lobbies' = [lobbies EXCEPT ![k].gameState.slimes[i] = s2]
                    /\ out' = <<>>
                    /\ UNCHANGED <<ws, intervals, crashed>>

(* startMatch that leaves player 2's win counter as it was *)
startMatchKeepWins(g, r) ==
    resetBall([g EXCEPT !.match.started = TRUE,
                        !.match.p1Wins = 0,
                        !.slimes[0].score = 0, !.slimes[1].score = 0], r)

(* ws.on("message"), data.type === "start", server.js:170-180 *)
startMatch(g, r) ==
    resetBall([g EXCEPT !.match.started = TRUE,
                        !.match.p1Wins = 0, !.match.p2Wins = 0,
                        !.slimes[0].score = 0, !.slimes[1].score = 0], r)

Start(c) ==
    LET k == ToKey(ws[c].roomCode)
    IN  /\ Receives(c)
        /\ out' = <<>>
        /\ UNCHANGED <<ws, intervals, crashed>>
        /\ IF HasLobby(k)
           THEN \E r \in RandomVx :
                  lobbies' = [lobbies EXCEPT
                                ![k].gameState = startMatch(@, r)]
           ELSE lobbies' = lobbies

(* ws.on("message") for any other payload, server.js:137-138:              *)
(*   "unparseable"  JSON.parse throws SyntaxError                           *)
(*   "null"         data is null, data.type throws TypeError                *)
(*   "scalar"       a number, string or boolean: data.type is undefined     *)
(*   "unknown"      an object whose type is none of join/input/start        *)
Payloads == {"unparseable", "null", "scalar", "unknown"}

Other(c, payload) ==
    /\ Receives(c)
    /\ IF payload \in {"unparseable", "null"}
       THEN Throw
       ELSE /\ out' = <<>>
            /\ UNCHANGED <<lobbies, ws, intervals, crashed>>

(* ws.on("close"), server.js:183-188 *)
Remove(players, c) == SelectSeq(players, LAMBDA p : p # c)

(* Close that keeps a room whose slot list it has emptied *)
CloseKeepRoom(c) ==
    LET rc == ws[c].roomCode
        k  == ToKey(rc)
    IN  /\ Receives(c)
        /\ ws' = [ws EXCEPT ![c].readyState = "CLOSED"]
        /\ out' = <<>>
        /\ UNCHANGED <<intervals, crashed>>
        /\ IF Truthy(rc) /\ HasLobby(k)
           THEN lobbies' = [lobbies EXCEPT
                              ![k].players = Remove(lobbies[k].players, c)]
           ELSE lobbies' = lobbies

Close(c) ==
    LET rc == ws[c].roomCode
        k  == ToKey(rc)
    IN  /\ Receives(c)
        /\ ws' = [ws EXCEPT ![c].readyState = "CLOSED"]
        /\ out' = <<>>
        /\ UNCHANGED <<intervals, crashed>>
        /\ IF Truthy(rc) /\ HasLobby(k)
           THEN LET rest == Remove(lobbies[k].players, c)
                IN  IF Len(rest) = 0
                    THEN lobbies' = [j \in DOMAIN lobbies \ {k} |-> lobbies[j]]
                    ELSE lobbies' = [lobbies EXCEPT ![k].players = rest]
           ELSE lobbies' = lobbies

(* broadcast state, server.js:121-126 *)
broadcast(players, g) ==
    LET open == SelectSeq(players, LAMBDA p : ws[p].readyState = "OPEN")
    IN  [n \in 1..Len(open) |-> Msg(open[n], "state", g)]

(* Math.random is called only inside resetBall, which the callback reaches *)
(* only on the floor branch; elsewhere there is no outcome to choose.       *)
hitsFloor(g) ==
    LET m == updateBall(updateSlimes(g))
    IN  m.ball.y > m.height - Px(12)

Randoms(g) == IF hitsFloor(g) THEN RandomVx ELSE {Px(BALL_RESET_VX)}

(* Tick without the test of match.started *)
TickAlways(k) ==
    /\ ~crashed
    /\ intervals[k] > 0
    /\ UNCHANGED <<ws, intervals, crashed>>
    /\ IF ~HasLobby(k)
       THEN /\ out' = <<>>
            /\ lobbies' = lobbies
       ELSE \E r1, r2 \in Randoms(lobbies[k].gameState) :
              LET g == step(lobbies[k].gameState, r1, r2)
              IN  /\ lobbies' = [lobbies EXCEPT ![k].gameState = g]
                  /\ out' = broadcast(lobbies[k].players, g)

(* one firing of an interval created by startGameLoop(k), server.js:38-127 *)
Tick(k) ==
    /\ ~crashed
    /\ intervals[k] > 0
    /\ UNCHANGED <<ws, intervals, crashed>>
    /\ IF ~HasLobby(k) \/ ~lobbies[k].gameState.match.started
       THEN /\ out' = <<>>
            /\ lobbies' = lobbies
       ELSE \E r1, r2 \in Randoms(lobbies[k].gameState) :
              LET g == step(lobbies[k].gameState, r1, r2)
              IN  /\ lobbies' = [lobbies EXCEPT ![k].gameState = g]
                  /\ out' = broadcast(lobbies[k].players, g)

---------------------------------------------------------------------------
(* Spec: all handlers, any connection, any room code, a few ticks *)

Handled == msgs < MaxMsgs /\ msgs' = msgs + 1

JoinStep  == \E c \in Conns, rc \in RoomCodes :
                Handled /\ Join(c, rc) /\ UNCHANGED <<ticks, inputs>>
InputStep == \E c \in Conns, vx \in VX, jump \in BOOLEAN :
                /\ Handled
                /\ inputs < MaxInputs
                /\ Input(c, vx, jump)
                /\ inputs' = inputs + 1
                /\ ticks' = ticks
StartStep == \E c \in Conns : Handled /\ Start(c) /\ UNCHANGED <<ticks, inputs>>
OtherStep == \E c \in Conns, p \in Payloads :
                Handled /\ Other(c, p) /\ UNCHANGED <<ticks, inputs>>
CloseStep == \E c \in Conns : Handled /\ Close(c) /\ UNCHANGED <<ticks, inputs>>
TickStep  == \E k \in Keys :
                /\ ticks < MaxTicks
                /\ Tick(k)
                /\ ticks' = ticks + 1
                /\ UNCHANGED <<msgs, inputs>>

Next == JoinStep \/ InputStep \/ StartStep \/ OtherStep \/ CloseStep \/ TickStep

Spec == Init /\ [][Next]_vars

---------------------------------------------------------------------------
(* SpecMatch: one room played to the end of the match.  Connections are    *)
(* interchangeable, so they join room "A" in order; join and input messages *)
(* arrive before the interval first fires (ticks = 0), start messages      *)
(* at any time once both seats are taken, from the first player.  Here      *)
(* `ticks` stops counting at 1.                                             *)

Seats == IF HasLobby("A") THEN Len(lobbies["A"].players) ELSE 0
Min(a, b) == IF a < b THEN a ELSE b

MatchJoin  == \E c \in Conns :
                 /\ ticks = 0
                 /\ c = Seats + 1
                 /\ Join(c, "A")
                 /\ UNCHANGED <<msgs, ticks, inputs>>
MatchInput == \E c \in Conns, vx \in VX, jump \in BOOLEAN :
                 /\ inputs < MaxInputs
                 /\ ticks = 0
                 /\ Input(c, vx, jump)
                 /\ inputs' = inputs + 1
                 /\ UNCHANGED <<msgs, ticks>>
MatchStart == \E c \in {1} :
                 /\ Seats = 2
                 /\ Start(c)
                 /\ UNCHANGED <<msgs, ticks, inputs>>
MatchTick  == /\ Tick("A")
              /\ ticks' = Min(ticks + 1, 1)
              /\ UNCHANGED <<msgs, inputs>>

NextMatch == MatchJoin \/ MatchInput \/ MatchStart \/ MatchTick

SpecMatch == Init /\ [][NextMatch]_vars

---------------------------------------------------------------------------
(* SpecSlime: the slimes of room "A" over MaxFlightTicks ticks of one       *)
(* match.  Connections 1 and 2 take the seats of "A" in order and the third *)
(* opens a second room; inputs with a new vx arrive before the first tick   *)
(* (at most MaxInputs of them); the first player may repeat its current vx  *)
(* with a jump request at any time, without limit.                          *)

Joined == Cardinality({c \in Conns : ws[c].playerIndex # NoIndex})
Playing(k) == HasLobby(k) /\ lobbies[k].gameState.match.started

SlimeJoin  == \E c \in Conns :
                 /\ ticks = 0
                 /\ c = Joined + 1
                 /\ Join(c, IF c <= 2 THEN "A" ELSE "undefined")
                 /\ UNCHANGED <<msgs, ticks, inputs>>
SlimeStart == /\ Seats >= 1
              /\ ~Playing("A")
              /\ Start(1)
              /\ UNCHANGED <<msgs, ticks, inputs>>
SlimeInput == \E c \in Conns, vx \in VX, jump \in BOOLEAN :
                 /\ ticks = 0
                 /\ inputs < MaxInputs
                 /\ Input(c, vx, jump)
                 /\ inputs' = inputs + 1
                 /\ UNCHANGED <<msgs, ticks>>
SlimeJump  == /\ Seats >= 1
              /\ Input(1, lobbies["A"].gameState.slimes[0].vx, TRUE)
              /\ UNCHANGED <<msgs, ticks, inputs>>
SlimeTick  == /\ ticks < MaxFlightTicks
              /\ Playing("A")
              /\ Tick("A")
              /\ ticks' = ticks + 1
              /\ UNCHANGED <<msgs, inputs>>

NextSlime == SlimeJoin \/ SlimeStart \/ SlimeInput \/ SlimeJump \/ SlimeTick

SpecSlime == Init /\ [][NextSlime]_vars

---------------------------------------------------------------------------
(* Claims *)

Players(k) == lobbies[k].players
Game(k) == lobbies[k].gameState
Slots(c) == {kn \in Keys \X (1..2) :
               /\ HasLobby(kn[1])
               /\ kn[2] <= Len(Players(kn[1]))
               /\ Players(kn[1])[kn[2]] = c}
SentOnly(o, c, t) == Len(o) = 1 /\ o[1].to = c /\ o[1].type = t
JustBroadcast == Len(out) > 0 /\ \A n \in 1..Len(out) : out[n].type = "state"

(* C1: in every room, two different connected players (open connections    *)
(* that joined this room and nothing else) never carry the same slime       *)
(* index: a join is given an index no connected slot of the room holds,     *)
(* also after a player left and another joined.                             *)
Seated(c, k) ==
    /\ ws[c].readyState = "OPEN"
    /\ ToKey(ws[c].roomCode) = k
    /\ Cardinality(Slots(c)) = 1

C1_UniqueIndex ==
    \A k \in DOMAIN lobbies : \A i, j \in 1..Len(Players(k)) :
        (/\ i < j
         /\ Players(k)[i] # Players(k)[j]
         /\ Seated(Players(k)[i], k)
         /\ Seated(Players(k)[j], k))
            => ws[Players(k)[i]].playerIndex # ws[Players(k)[j]].playerIndex

(* C2: for every room identifier at most one tick driver is active.         *)
C2_OneDriver == \A k \in Keys : intervals[k] <= 1

(* C3: a connection occupies at most one slot in total across all rooms.    *)
C3_OneSlot == \A c \in Conns : Cardinality(Slots(c)) <= 1

(* C4: once a connection's close event has been handled, the connection     *)
(* appears in no room's slot list.                                          *)
C4_NoStaleSlot == \A c \in Conns : ws[c].readyState = "CLOSED" => Slots(c) = {}

(* C5: a join to a room that already holds 2 slots sends the joiner `full`  *)
(* and nothing else: registry, game states and every connection's recorded  *)
(* room/index stay as they were, and the connection stays open.             *)
C5_FullJoin ==
    [][\A c \in Conns, rc \in RoomCodes :
          (/\ HasLobby(ToKey(rc))
           /\ Len(Players(ToKey(rc))) >= 2
           /\ Join(c, rc))
        => (/\ SentOnly(out', c, "full")
            /\ lobbies' = lobbies
            /\ ws' = ws
            /\ ws'[c].readyState = "OPEN"
            /\ ~crashed')]_vars

C5_Witness ==
    \E c \in Conns :
        /\ SentOnly(out, c, "full")
        /\ \E k \in DOMAIN lobbies : Len(Players(k)) = 2 /\ Slots(c) = {}

(* C6: when the connection holding the only remaining slot of a room        *)
(* disconnects, the room no longer exists in the registry.                  *)
C6_LastLeaveRemovesRoom ==
    [][\A c \in Conns, k \in Keys :
          (/\ HasLobby(k)
           /\ Remove(Players(k), c) = <<>>
           /\ Close(c))
        => k \notin DOMAIN lobbies']_vars

(* C7: a malformed inbound message is dropped: no room and no registry      *)
(* entry changes, nothing is sent, and no handler fails with an uncaught    *)
(* exception.                                                               *)
C7_MalformedDropped ==
    [][\A c \in Conns, p \in Payloads :
          Other(c, p) => (lobbies' = lobbies /\ out' = <<>> /\ ~crashed')]_vars

(* C8: input or start from a connection that never joined successfully      *)
(* leaves every room of the registry unchanged.                             *)
C8_UnjoinedIgnored ==
    [][\A c \in Conns :
          (/\ ws[c].playerIndex = NoIndex
           /\ \/ Start(c)
              \/ \E vx \in VX, jump \in BOOLEAN : Input(c, vx, jump))
        => lobbies' = lobbies]_vars

(* A step that is a firing of room k's interval while the match is playing.  *)
(* Such a tick sends one state message per open slot, which is tested first  *)
(* because it is cheap to evaluate.                                          *)
OpenSlots(k) == SelectSeq(Players(k), LAMBDA p : ws[p].readyState = "OPEN")

PlayingTick(k) ==
    /\ Game(k).match.started
    /\ Len(out') = Len(OpenSlots(k))
    /\ Tick(k)

(* C9: a tick turns `started` from true to false exactly when it brings a   *)
(* win counter to ceil(bestOf/2) = 2; while `started` holds both win        *)
(* counters are below 2, and no win counter ever exceeds 2.                 *)
Needed == (BEST_OF + 1) \div 2

C9_MatchEnd ==
    /\ [](\A k \in DOMAIN lobbies :
            /\ Game(k).match.p1Wins <= Needed
            /\ Game(k).match.p2Wins <= Needed
            /\ Game(k).match.started =>
                 (Game(k).match.p1Wins < Needed /\ Game(k).match.p2Wins < Needed))
    /\ [][\A k \in Keys :
            (HasLobby(k) /\ PlayingTick(k))
          => LET m  == Game(k).match
                 m1 == lobbies'[k].gameState.match
             IN  (m.started /\ ~m1.started)
                   <=> \/ (m.p1Wins < Needed /\ m1.p1Wins = Needed)
                       \/ (m.p2Wins < Needed /\ m1.p2Wins = Needed)]_vars

C9_Witness ==
    \E k \in DOMAIN lobbies :
        /\ JustBroadcast
        /\ ~Game(k).match.started
        /\ Game(k).match.p1Wins = Needed \/ Game(k).match.p2Wins = Needed

(* C10: a tick in which a rally score reaches 5 leaves both rally scores 0  *)
(* and raises exactly the win counter of the player who reached 5, by 1;    *)
(* any other tick leaves both win counters unchanged.                       *)
C10_SetWon ==
    [][\A k \in Keys :
          (HasLobby(k) /\ PlayingTick(k))
        => LET g  == Game(k)
               g1 == lobbies'[k].gameState
               m  == updateBall(updateSlimes(g))
               scorer == IF m.ball.x < m.width \div 2 THEN 1 ELSE 0
               reaches == hitsFloor(g) /\ g.slimes[scorer].score + 1 = POINTS_PER_SET
               d1 == g1.match.p1Wins - g.match.p1Wins
               d2 == g1.match.p2Wins - g.match.p2Wins
           IN  IF reaches
               THEN /\ g1.slimes[0].score = 0 /\ g1.slimes[1].score = 0
                    /\ d1 = (IF scorer = 0 THEN 1 ELSE 0)
                    /\ d2 = (IF scorer = 1 THEN 1 ELSE 0)
               ELSE d1 = 0 /\ d2 = 0]_vars

C10_Witness ==
    \E k \in DOMAIN lobbies :
        /\ JustBroadcast
        /\ Game(k).match.p1Wins + Game(k).match.p2Wins = 1
        /\ Game(k).slimes[0].score = 0 /\ Game(k).slimes[1].score = 0
        /\ Game(k).ball.x = Game(k).width \div 2
        /\ Game(k).ball.y = Px(BALL_RESET_Y)

(* The side that is given the point when the ball of g lands in this tick:  *)
(* 1 (player 2) for a landing left of centre, 0 (player 1) otherwise.       *)
Landing(g) == updateBall(updateSlimes(g)).ball
Scorer(g) == IF Landing(g).x < g.width \div 2 THEN 1 ELSE 0
FreshBall(g) ==
    /\ g.ball.x = g.width \div 2
    /\ g.ball.y = Px(BALL_RESET_Y)
    /\ g.ball.vy = -Px(2)
    /\ g.ball.vx \in RandomVx

(* C11 as claimed: in a tick where the ball crosses the floor left of       *)
(* centre, player 2's rally score is afterwards exactly 1 higher and player *)
(* 1's unchanged (symmetrically on the right), and the ball is a fresh ball *)
(* at the centre at height 100.                                             *)
C11_PointScored ==
    [][\A k \in Keys :
          (HasLobby(k) /\ PlayingTick(k) /\ hitsFloor(Game(k)))
        => LET g  == Game(k)
               g1 == lobbies'[k].gameState
               w  == Scorer(g)
           IN  /\ g1.slimes[w].score = g.slimes[w].score + 1
               /\ g1.slimes[1 - w].score = g.slimes[1 - w].score
               /\ FreshBall(g1)]_vars

(* C11 amended: the same, except that a point which is the scorer's fifth   *)
(* completes the set and leaves both rally scores 0.                        *)
C11_PointScoredOrSetWon ==
    [][\A k \in Keys :
          (HasLobby(k) /\ PlayingTick(k) /\ hitsFloor(Game(k)))
        => LET g  == Game(k)
               g1 == lobbies'[k].gameState
               w  == Scorer(g)
           IN  /\ IF g.slimes[w].score + 1 = POINTS_PER_SET
                  THEN g1.slimes[0].score = 0 /\ g1.slimes[1].score = 0
                  ELSE /\ g1.slimes[w].score = g.slimes[w].score + 1
                       /\ g1.slimes[1 - w].score = g.slimes[1 - w].score
               /\ FreshBall(g1)]_vars

C11_Witness ==
    \E k \in DOMAIN lobbies :
        /\ JustBroadcast
        /\ FreshBall(Game(k))
        /\ Game(k).slimes[1].score = 1
        /\ Game(k).slimes[0].score = 2

(* C12: a start message handled in an existing room, whatever its state,   *)
(* leaves rally scores 0:0, win counters 0:0, started = TRUE and a ball at  *)
(* the reset position, and leaves each slime's position, velocity and       *)
(* jumping flag as they were; a second start handled immediately after      *)
(* gives the same room state up to the ball's horizontal velocity, which is *)
(* 3 or -3 each time.                                                       *)
C12_StartIdempotent ==
    [][\A c \in Conns :
          (HasLobby(ToKey(ws[c].roomCode)) /\ Start(c))
        => LET k  == ToKey(ws[c].roomCode)
               g  == lobbies[k].gameState
               g1 == lobbies'[k].gameState
           IN  /\ g1.slimes[0].score = 0 /\ g1.slimes[1].score = 0
               /\ g1.match.p1Wins = 0 /\ g1.match.p2Wins = 0
               /\ g1.match.started
               /\ FreshBall(g1)
               /\ \A i \in 0..1 : g1.slimes[i] = [g.slimes[i] EXCEPT !.score = 0]
               /\ lobbies'[k].players = lobbies[k].players
               /\ \A r \in RandomVx :
                     /\ startMatch(g1, r) = [g1 EXCEPT !.ball.vx = r]
                     /\ Abs(startMatch(g1, r).ball.vx) = Abs(g1.ball.vx)]_vars

(* a match restarted after play began, with a slime away from its post *)
C12_Witness ==
    /\ HasLobby("A")
    /\ ticks = 1
    /\ out = <<>>
    /\ Game("A").match.started
    /\ Game("A").match.p1Wins = 0 /\ Game("A").match.p2Wins = 0
    /\ Game("A").slimes[0].score = 0 /\ Game("A").slimes[1].score = 0
    /\ FreshBall(Game("A"))
    /\ Game("A").slimes[0].x # createGameState.slimes[0].x

(* floor level of a slime: canvas height minus the slime radius *)
FloorY(g) == g.height - Px(SLIME_RADIUS)

(* C13: whatever jump requests arrive between ticks, after every tick of a  *)
(* playing match each slime's y is at least 0 and at most floor level, 370. *)
C13_SlimeClamped ==
    \A k \in DOMAIN lobbies : \A i \in 0..1 :
        /\ Game(k).slimes[i].y >= 0
        /\ Game(k).slimes[i].y <= FloorY(Game(k))

(* a tick has just left a slime near the top of its jump *)
C13_Witness ==
    /\ HasLobby("A")
    /\ JustBroadcast
    /\ Game("A").slimes[0].jumping
    /\ Abs(Game("A").slimes[0].vy) <= SLIME_GRAVITY
    /\ Game("A").slimes[0].y < FloorY(Game("A")) - Px(80)

(* C14: in every reachable state every room of the registry has at most 2  *)
(* entries in its slot list, whatever joins (repeated ones included) and    *)
(* disconnects came before.                                                 *)
C14_AtMostTwoSlots == \A k \in DOMAIN lobbies : Len(Players(k)) <= 2

(* a connection holding both slots of a room has just been refused a third *)
C14_Witness ==
    \E c \in Conns, k \in DOMAIN lobbies :
        /\ Players(k) = <<c, c>>
        /\ SentOnly(out, c, "full")

(* C15: between any two handlers every room of the registry has a non-empty *)
(* slot list.                                                               *)
C15_NoEmptyRoom == \A k \in DOMAIN lobbies : Len(Players(k)) >= 1

(* a room was created and then deleted by the close of its last slot, while *)
(* another room holds the one connection that created it                    *)
C15_Witness ==
    \E k, j \in Keys, c, d \in Conns :
        /\ ~HasLobby(k) /\ intervals[k] >= 1
        /\ ws[c].readyState = "CLOSED" /\ ws[c].playerIndex # NoIndex
        /\ Truthy(ws[c].roomCode) /\ ToKey(ws[c].roomCode) = k
        /\ HasLobby(j) /\ Players(j) = <<d>>
        /\ ws[d].readyState = "OPEN" /\ ToKey(ws[d].roomCode) = j

(* number of messages of one handler's output addressed to connection c *)
SentTo(o, c) == Cardinality({n \in 1..Len(o) : o[n].to = c})

InRoom(c, k) == \E n \in 1..Len(Players(k)) : Players(k)[n] = c

(* C16: on every tick that begins with the room playing, each open          *)
(* connection of the room's slot list is sent exactly one `state` message   *)
(* carrying the post-tick game state, and every other connection nothing.   *)
C16_OneStatePerOpenSlot ==
    [][\A k \in Keys :
          (Playing(k) /\ Tick(k))
        => /\ \A n \in 1..Len(out') :
                 /\ out'[n].type = "state"
                 /\ out'[n].body = lobbies'[k].gameState
           /\ \A c \in Conns :
                 SentTo(out', c) =
                    IF InRoom(c, k) /\ ws[c].readyState = "OPEN"
                    THEN 1 ELSE 0]_vars

(* C17: a tick that fires while the room's match is not playing leaves the *)
(* room's game state and slot list unchanged and sends nothing; and as long *)
(* as the match stays not playing, no step at all moves the ball or a       *)
(* slime, changes a rally score or a win counter, or sends a state message. *)
C17_IdleTickFrozen ==
    [][\A k \in Keys :
          /\ (HasLobby(k) /\ ~Playing(k) /\ Tick(k))
                => (lobbies'[k] = lobbies[k] /\ out' = <<>>)
          /\ (HasLobby(k) /\ ~Playing(k) /\ k \in DOMAIN lobbies'
                          /\ ~lobbies'[k].gameState.match.started)
                => LET g  == Game(k)
                       g1 == lobbies'[k].gameState
                   IN  /\ g1.ball = g.ball
                       /\ g1.match = g.match
                       /\ \A i \in 0..1 :
                             /\ g1.slimes[i].score = g.slimes[i].score
                             /\ g1.slimes[i].x = g.slimes[i].x
                             /\ g1.slimes[i].y = g.slimes[i].y
                       /\ \A n \in 1..Len(out') : out'[n].type # "state"]_vars

(* the interval has fired on a finished match: the final win counters are  *)
(* still there and nothing was sent                                         *)
C17_Witness ==
    /\ HasLobby("A")
    /\ ticks = 1
    /\ out = <<>>
    /\ ~Game("A").match.started
    /\ Game("A").match.p1Wins = Needed \/ Game("A").match.p2Wins = Needed

(* C18: an input message from a connection joined to room R with slime     *)
(* index i sets vx of slime i of R to the supplied value and, when a jump   *)
(* is requested and the slime is not in the air, its vy to -7 and its       *)
(* jumping flag to true; nothing else of that slime, and nothing of the     *)
(* other slime, the ball, the scores, the match state, the slot lists or    *)
(* any other room changes.                                                  *)
C18_InputFrame ==
    [][\A c \in Conns, vx \in VX, jump \in BOOLEAN :
          (/\ ws[c].playerIndex # NoIndex
           /\ HasLobby(ToKey(ws[c].roomCode))
           /\ Input(c, vx, jump))
        => LET k  == ToKey(ws[c].roomCode)
               i  == ws[c].playerIndex
               s  == Game(k).slimes[i]
               s1 == lobbies'[k].gameState.slimes[i]
               up == jump /\ ~s.jumping
           IN  /\ s1.vx = vx
               /\ s1.vy = IF up THEN -7 * Scale ELSE s.vy
               /\ s1.jumping = (up \/ s.jumping)
               /\ s1.x = s.x /\ s1.y = s.y /\ s1.score = s.score
               /\ lobbies'[k].gameState.slimes[1 - i] = Game(k).slimes[1 - i]
               /\ lobbies'[k].gameState.ball = Game(k).ball
               /\ lobbies'[k].gameState.match = Game(k).match
               /\ lobbies'[k].players = Players(k)
               /\ DOMAIN lobbies' = DOMAIN lobbies
               /\ \A j \in DOMAIN lobbies \ {k} : lobbies'[j] = lobbies[j]
               /\ ws' = ws
               /\ out' = <<>>
               /\ ~crashed']_vars

(* player 2 has just steered and jumped from the floor during play, and a  *)
(* second room exists                                                       *)
C18_Witness ==
    /\ HasLobby("A") /\ HasLobby("undefined")
    /\ out = <<>>
    /\ Game("A").match.started
    /\ Game("A").slimes[1].vx # 0
    /\ Game("A").slimes[1].vy = JUMP_VY
    /\ Game("A").slimes[1].jumping
    /\ ~Game("A").slimes[0].jumping

(* C19: in every reachable state a slime above floor level has its jumping *)
(* flag set, and no message handled between ticks changes the vertical      *)
(* velocity of a slime that is above floor level.                           *)
C19_NoMidAirJump ==
    /\ [](\A k \in DOMAIN lobbies : \A i \in 0..1 :
             Game(k).slimes[i].y < FloorY(Game(k)) => Game(k).slimes[i].jumping)
    /\ [][ticks' = ticks
            => \A k \in DOMAIN lobbies : \A i \in 0..1 :
                  (k \in DOMAIN lobbies' /\ Game(k).slimes[i].y < FloorY(Game(k)))
                     => lobbies'[k].gameState.slimes[i].vy = Game(k).slimes[i].vy]_vars

(* a jump request has just been handled while player 1's slime was in the  *)
(* air, on its way down                                                     *)
C19_Witness ==
    /\ HasLobby("A")
    /\ ticks > 0
    /\ out = <<>>
    /\ Game("A").match.started
    /\ Game("A").slimes[0].y < FloorY(Game("A"))
    /\ Game("A").slimes[0].vy > 0
    /\ Game("A").slimes[0].jumping

===========================================================================
